---- MODULE Spec2Model ----
(***************************************************************************)
(* Model of src/tt.py: the ProxyChecker run (load_proxies, check_proxy,    *)
(* check_all_proxies, save_working_proxies, run) and main's handling of    *)
(* KeyboardInterrupt.                                                       *)
(*                                                                         *)
(* Text is modelled as a sequence of tokens: an address "h1:8080" is       *)
(* <<"h1:8080">>, "socks5://h2:1080" is <<"socks5", "://", "h2:1080">>, a   *)
(* blank is the token " " and the end of a written line is "\n".           *)
(*                                                                         *)
(* The thread pool is the standard library's ThreadPoolExecutor: a FIFO    *)
(* work queue, at most max_workers threads, each running one work item at  *)
(* a time; leaving the `with` block calls shutdown(wait=True), which joins *)
(* the workers after they have drained the queue.  One KeyboardInterrupt   *)
(* at most is delivered to the main thread during a run.                   *)
(***************************************************************************)
EXTENDS Integers, Sequences, FiniteSets, TLC

\* ---------------------------------------------------------------- bounds
MaxLines == 2          \* lines of the input file
MaxWorkers == 2        \* values of -w/--workers range over 0..MaxWorkers

\* ---------------------------------------------------------------- inputs
Whitespace == {" ", "\n"}
AddrPlain == <<"h1:8080">>
AddrScheme == <<"socks5", "://", "h2:1080">>
\* a whitespace-only line, a bare address, an address padded with blanks
RawLines == {<<" ">>, AddrPlain, <<" ">> \o AddrScheme \o <<" ">>}

RECURSIVE SeqsUpTo(_, _)
SeqsUpTo(S, n) ==
    IF n = 0 THEN {<<>>}
    ELSE LET shorter == SeqsUpTo(S, n - 1)
         IN  shorter \cup {Append(s, x) : s \in {t \in shorter : Len(t) = n - 1}, x \in S}

InputFiles ==
    {[status |-> "ok", lines |-> ls] : ls \in SeqsUpTo(RawLines, MaxLines)}
    \cup {[status |-> "NotFound", lines |-> <<>>], [status |-> "IOError", lines |-> <<>>]}

StatusCodes == {200, 204, 404}
ElapsedTimes == {1}    \* time.time() - start_time of an answered request
ExceptionKinds == {"ProxyError", "ConnectTimeout", "ReadTimeout", "ConnectionError", "Exception"}
\* what requests.get does for one probe: a response with a status code after
\* some elapsed time, or one of the exceptions
Attempts ==
    {[kind |-> "response", status_code |-> s, elapsed |-> e] : s \in StatusCodes, e \in ElapsedTimes}
    \cup {[kind |-> k, status_code |-> 0, elapsed |-> 0] : k \in ExceptionKinds}

StaleContent == <<<<"old", "\n">>>>
NoExit == -1

VARIABLES
    pc,               \* position of the main thread
    proxy_file,       \* the input file as the run finds it
    MAX_WORKERS,      \* module global, set by main from -w
    proxies,          \* the list returned by load_proxies
    total_proxies, working_proxies, failed_proxies,
    checked,          \* local of check_all_proxies
    futures,          \* future_to_proxy, in submission order
    work_queue,       \* the executor's queue: indices into futures
    num_threads,      \* worker threads the executor has spawned
    raised,           \* exception unwinding the main thread, "none" if none
    interrupted,      \* a KeyboardInterrupt has been delivered
    summary,          \* the printed summary, <<>> while not printed
    file_exists, file_content,   \* the output file
    save_state,       \* "none" | "skipped" | "open" | "saved" | "error"
    exit_code,        \* process exit status, NoExit while running
    stdout            \* the lines printed, as Line records

vars == <<pc, proxy_file, MAX_WORKERS, proxies, total_proxies, working_proxies,
          failed_proxies, checked, futures, work_queue, num_threads, raised,
          interrupted, summary, file_exists, file_content, save_state, exit_code,
          stdout>>

\* a printed line: its kind and the numbers and outcome it carries
Line(tag, index, total, ok) == [tag |-> tag, index |-> index, total |-> total, ok |-> ok]
Notice(tag) == Line(tag, 0, 0, FALSE)

\* ------------------------------------------------------------ load_proxies
RECURSIVE lstrip(_)
lstrip(s) == IF s # <<>> /\ Head(s) \in Whitespace THEN lstrip(Tail(s)) ELSE s

RECURSIVE rstrip(_)
rstrip(s) ==
    IF s # <<>> /\ s[Len(s)] \in Whitespace THEN rstrip(SubSeq(s, 1, Len(s) - 1)) ELSE s

strip(s) == rstrip(lstrip(s))

\* [line.strip() for line in f if line.strip()]
RECURSIVE ReadProxies(_)
ReadProxies(lines) ==
    IF lines = <<>> THEN <<>>
    ELSE IF strip(Head(lines)) # <<>>
         THEN <<strip(Head(lines))>> \o ReadProxies(Tail(lines))
         ELSE ReadProxies(Tail(lines))

\* ------------------------------------------------------------- check_proxy
HasScheme(proxy) == \E i \in 1..Len(proxy) : proxy[i] = "://"

ProxyUrl(proxy) == IF HasScheme(proxy) THEN proxy ELSE <<"http", "://">> \o proxy

\* check_proxy without its last handler, `except Exception`
check_proxy_no_catch_all(proxy, attempt) ==
    IF attempt.kind = "response"
    THEN [exc |-> "none", value |-> <<proxy, attempt.status_code = 200, attempt.elapsed>>]
    ELSE IF attempt.kind = "Exception"
         THEN [exc |-> "Exception", value |-> <<>>]
         ELSE [exc |-> "none", value |-> <<proxy, FALSE, 0>>]

\* check_proxy taking every 2xx status for a working proxy
check_proxy_any_2xx(proxy, attempt) ==
    IF attempt.kind = "response"
    THEN [exc |-> "none",
          value |-> <<proxy, attempt.status_code \in 200..299, attempt.elapsed>>]
    ELSE [exc |-> "none", value |-> <<proxy, FALSE, 0>>]

\* check_proxy returning proxy_url in place of proxy
check_proxy_returns_url(proxy, attempt) ==
    IF attempt.kind = "response"
    THEN [exc |-> "none",
          value |-> <<ProxyUrl(proxy), attempt.status_code = 200, attempt.elapsed>>]
    ELSE [exc |-> "none", value |-> <<ProxyUrl(proxy), FALSE, 0>>]

\* the tuple check_proxy returns, or the exception it lets out
check_proxy(proxy, attempt) ==
    IF attempt.kind = "response"
    THEN IF attempt.status_code = 200
         THEN [exc |-> "none", value |-> <<proxy, TRUE, attempt.elapsed>>]
         ELSE [exc |-> "none", value |-> <<proxy, FALSE, attempt.elapsed>>]
    ELSE \* ProxyError, ConnectTimeout, ReadTimeout, ConnectionError, Exception
         [exc |-> "none", value |-> <<proxy, FALSE, 0>>]

NoValue == <<>>
NoAttempt == [kind |-> "none", status_code |-> 0, elapsed |-> 0]

NewFuture(proxy) ==
    [proxy |-> proxy, state |-> "PENDING", calls |-> 0, proxy_url |-> <<>>,
     attempt |-> NoAttempt, exc |-> "none", value |-> NoValue, yielded |-> FALSE]

Running == {i \in 1..Len(futures) : futures[i].state = "RUNNING"}
Finished == {i \in 1..Len(futures) : futures[i].state = "FINISHED"}

Terminal == {"Done", "Aborted", "Crashed"}

Init ==
    /\ pc = "Idle"
    /\ proxy_file \in InputFiles
    /\ MAX_WORKERS \in 0..MaxWorkers
    /\ proxies = <<>>
    /\ total_proxies = 0
    /\ working_proxies = <<>>
    /\ failed_proxies = <<>>
    /\ checked = 0
    /\ futures = <<>>
    /\ work_queue = <<>>
    /\ num_threads = 0
    /\ raised = "none"
    /\ interrupted = FALSE
    /\ summary = <<>>
    /\ file_exists \in BOOLEAN
    /\ file_content = IF file_exists THEN StaleContent ELSE <<>>
    /\ save_state = "none"
    /\ exit_code = NoExit
    /\ stdout = <<>>

\* main without its `except KeyboardInterrupt` handler
ExitStatusUnhandled(exc) == 1

\* main: the status the process ends with when `exc` leaves checker.run():
\* KeyboardInterrupt is caught and answered with sys.exit(0); SystemExit is
\* load_proxies' sys.exit(1); any other exception is a traceback, status 1
ExitStatus(exc) == IF exc = "KeyboardInterrupt" THEN 0 ELSE 1

\* run(): the banner, up to the call of load_proxies
run_begin ==
    /\ pc = "Idle"
    /\ pc' = "Loading"
    /\ stdout' = Append(stdout, Notice("banner"))
    /\ UNCHANGED <<proxy_file, MAX_WORKERS, proxies, total_proxies, working_proxies,
                   failed_proxies, checked, futures, work_queue, num_threads, raised,
                   interrupted, summary, file_exists, file_content, save_state, exit_code>>

\* load_proxies answering a read failure with an empty list
ReadFileSwallowed(file) ==
    [exc |-> "none",
     proxies |-> IF file.status = "ok" THEN ReadProxies(file.lines) ELSE <<>>]

\* what load_proxies makes of the file: the list, or the exception it turns
\* into sys.exit(1)
ReadFile(file) ==
    IF file.status = "ok"
    THEN [exc |-> "none", proxies |-> ReadProxies(file.lines)]
    ELSE [exc |-> "SystemExit", proxies |-> <<>>]

\* run() without its early return
NoProxiesIgnored(ps) == FALSE

\* run(): `if not proxies`
NoProxies(ps) == ps = <<>>

\* run(): load_proxies, then `if not proxies: return`
load_proxies ==
    /\ pc = "Loading"
    /\ LET r == ReadFile(proxy_file)
       IN  IF r.exc = "none"
           THEN /\ proxies' = r.proxies
                /\ total_proxies' = Len(r.proxies)
                /\ raised' = raised
                /\ IF NoProxies(r.proxies)
                   THEN /\ pc' = "Done" /\ exit_code' = 0
                        /\ stdout' = stdout \o <<Line("loaded", 0, Len(r.proxies), FALSE),
                                                 Notice("no_proxies")>>
                   ELSE /\ pc' = "Probing" /\ exit_code' = exit_code
                        /\ stdout' = Append(stdout, Line("loaded", 0, Len(r.proxies), FALSE))
           ELSE /\ pc' = "Aborted"
                /\ raised' = r.exc
                /\ exit_code' = ExitStatus(r.exc)
                /\ stdout' = Append(stdout, Notice("load_error"))
                /\ UNCHANGED <<proxies, total_proxies>>
    /\ UNCHANGED <<proxy_file, MAX_WORKERS, working_proxies, failed_proxies, checked,
                   futures, work_queue, num_threads, interrupted, summary,
                   file_exists, file_content, save_state>>

\* check_all_proxies: the header, checked = 0 and
\* ThreadPoolExecutor(max_workers=MAX_WORKERS), which raises ValueError for
\* max_workers <= 0; main does not catch it
executor_init ==
    /\ pc = "Probing"
    /\ checked' = 0
    /\ stdout' = Append(stdout, Notice("start"))
    /\ IF MAX_WORKERS <= 0
       THEN pc' = "Crashed" /\ raised' = "ValueError" /\ exit_code' = ExitStatus("ValueError")
       ELSE pc' = "Submitting" /\ UNCHANGED <<raised, exit_code>>
    /\ UNCHANGED <<proxy_file, MAX_WORKERS, proxies, total_proxies, working_proxies,
                   failed_proxies, futures, work_queue, num_threads, interrupted,
                   summary, file_exists, file_content, save_state>>

\* an executor that starts a thread for every submitted work item
AdjustThreadCountUnbounded(n) == n + 1

\* an executor that keeps one thread fewer than max_workers
AdjustThreadCountOneShort(n) == IF n < MAX_WORKERS - 1 THEN n + 1 ELSE n

\* ThreadPoolExecutor._adjust_thread_count: a new worker thread per submit
\* while there are fewer than max_workers
AdjustThreadCount(n) == IF n < MAX_WORKERS THEN n + 1 ELSE n

\* the dict comprehension: one executor.submit per proxy, in list order
submit ==
    /\ pc = "Submitting"
    /\ IF Len(futures) < Len(proxies)
       THEN /\ futures' = Append(futures, NewFuture(proxies[Len(futures) + 1]))
            /\ work_queue' = Append(work_queue, Len(futures) + 1)
            /\ num_threads' = AdjustThreadCount(num_threads)
            /\ pc' = pc
       ELSE /\ pc' = "Collecting"
            /\ UNCHANGED <<futures, work_queue, num_threads>>
    /\ UNCHANGED <<proxy_file, MAX_WORKERS, proxies, total_proxies, working_proxies,
                   failed_proxies, checked, raised, interrupted, summary, file_exists,
                   file_content, save_state, exit_code, stdout>>

\* a worker thread is free to take the next work item
CanStart == work_queue # <<>> /\ Cardinality(Running) < num_threads

\* a worker takes the head of the queue and enters check_proxy (lines 49-59)
worker_start ==
    /\ pc \notin Terminal
    /\ CanStart
    /\ LET i == Head(work_queue)
       IN  futures' = [futures EXCEPT ![i].state = "RUNNING",
                                      ![i].calls = @ + 1,
                                      ![i].proxy_url = ProxyUrl(futures[i].proxy)]
    /\ work_queue' = Tail(work_queue)
    /\ UNCHANGED <<pc, proxy_file, MAX_WORKERS, proxies, total_proxies, working_proxies,
                   failed_proxies, checked, num_threads, raised, interrupted, summary,
                   file_exists, file_content, save_state, exit_code, stdout>>

\* requests.get, called by a worker inside check_proxy, returns or raises
request_done ==
    /\ pc \notin Terminal
    /\ \E i \in Running, attempt \in Attempts :
          /\ futures[i].attempt = NoAttempt
          /\ futures' = [futures EXCEPT ![i].attempt = attempt]
    /\ UNCHANGED <<pc, proxy_file, MAX_WORKERS, proxies, total_proxies, working_proxies,
                   failed_proxies, checked, work_queue, num_threads, raised, interrupted,
                   summary, file_exists, file_content, save_state, exit_code, stdout>>

\* check_proxy appending its own outcome to the shared lists from the worker
worker_finish_appends ==
    /\ pc \notin Terminal
    /\ \E i \in Running :
          /\ futures[i].attempt # NoAttempt
          /\ LET r == check_proxy(futures[i].proxy, futures[i].attempt)
             IN  /\ futures' = [futures EXCEPT ![i].state = "FINISHED",
                                               ![i].attempt = NoAttempt,
                                               ![i].exc = r.exc,
                                               ![i].value = r.value]
                 /\ IF r.value[2]
                    THEN /\ working_proxies' = Append(working_proxies, r.value[1])
                         /\ failed_proxies' = failed_proxies
                    ELSE /\ failed_proxies' = Append(failed_proxies, r.value[1])
                         /\ working_proxies' = working_proxies
    /\ UNCHANGED <<pc, proxy_file, MAX_WORKERS, proxies, total_proxies,
                   checked, work_queue, num_threads, raised, interrupted,
                   summary, file_exists, file_content, save_state, exit_code, stdout>>

\* check_proxy returns (lines 67-83): the future is done and holds the outcome;
\* the response, a local of check_proxy, is gone
worker_finish ==
    /\ pc \notin Terminal
    /\ \E i \in Running :
          /\ futures[i].attempt # NoAttempt
          /\ LET r == check_proxy(futures[i].proxy, futures[i].attempt)
             IN  futures' = [futures EXCEPT ![i].state = "FINISHED",
                                            ![i].attempt = NoAttempt,
                                            ![i].exc = r.exc,
                                            ![i].value = r.value]
    /\ UNCHANGED <<pc, proxy_file, MAX_WORKERS, proxies, total_proxies, working_proxies,
                   failed_proxies, checked, work_queue, num_threads, raised, interrupted,
                   summary, file_exists, file_content, save_state, exit_code, stdout>>

\* futures as_completed may yield next: done, not yet yielded, in any order
Completed == {i \in Finished : ~futures[i].yielded}

\* a loop that stops at the first result
ExhaustedAtFirst == \E i \in 1..Len(futures) : futures[i].yielded

\* as_completed has yielded every future: the for loop ends
Exhausted == \A i \in 1..Len(futures) : futures[i].yielded

\* the loop body without its else branch
ClassifiedWorkingOnly(value, working, failed) ==
    IF value[2]
    THEN [working |-> Append(working, value[1]), failed |-> failed]
    ELSE [working |-> working, failed |-> failed]

\* the loop body putting each result at the front of its list
ClassifiedAtFront(value, working, failed) ==
    IF value[2]
    THEN [working |-> <<value[1]>> \o working, failed |-> failed]
    ELSE [working |-> working, failed |-> <<value[1]>> \o failed]

\* lines 101-106: the result goes to one of the two lists
Classified(value, working, failed) ==
    IF value[2]
    THEN [working |-> Append(working, value[1]), failed |-> failed]
    ELSE [working |-> working, failed |-> Append(failed, value[1])]

\* the loop body printing the progress line before counting the result
collect_prints_before_counting ==
    /\ pc = "Collecting"
    /\ \E i \in Completed :
          /\ futures' = [futures EXCEPT ![i].yielded = TRUE]
          /\ IF futures[i].exc # "none"
             THEN /\ raised' = futures[i].exc
                  /\ pc' = "Unwinding"
                  /\ UNCHANGED <<checked, working_proxies, failed_proxies, stdout>>
             ELSE /\ checked' = checked + 1
                  /\ LET c == Classified(futures[i].value, working_proxies, failed_proxies)
                     IN  /\ working_proxies' = c.working
                         /\ failed_proxies' = c.failed
                  /\ stdout' = Append(stdout, Line("progress", checked, total_proxies,
                                                   futures[i].value[2]))
                  /\ UNCHANGED <<pc, raised>>
    /\ UNCHANGED <<proxy_file, MAX_WORKERS, proxies, total_proxies, work_queue,
                   num_threads, interrupted, summary, file_exists, file_content,
                   save_state, exit_code>>

\* one iteration of `for future in as_completed(...)`: lines 98-106
collect ==
    /\ pc = "Collecting"
    /\ \E i \in Completed :
          /\ futures' = [futures EXCEPT ![i].yielded = TRUE]
          /\ IF futures[i].exc # "none"
             THEN \* future.result() re-raises inside the with block
                  /\ raised' = futures[i].exc
                  /\ pc' = "Unwinding"
                  /\ UNCHANGED <<checked, working_proxies, failed_proxies, stdout>>
             ELSE /\ checked' = checked + 1
                  /\ LET c == Classified(futures[i].value, working_proxies, failed_proxies)
                     IN  /\ working_proxies' = c.working
                         /\ failed_proxies' = c.failed
                  /\ stdout' = Append(stdout, Line("progress", checked + 1, total_proxies,
                                                   futures[i].value[2]))
                  /\ UNCHANGED <<pc, raised>>
    /\ UNCHANGED <<proxy_file, MAX_WORKERS, proxies, total_proxies, work_queue,
                   num_threads, interrupted, summary, file_exists, file_content,
                   save_state, exit_code>>

\* shutdown(wait=True) returns once the workers have drained the queue
ShutdownComplete == work_queue = <<>> /\ Running = {}

\* the loop ends and the with block is left normally
executor_exit ==
    /\ pc = "Collecting"
    /\ Exhausted
    /\ ShutdownComplete
    /\ pc' = "Reporting"
    /\ UNCHANGED <<proxy_file, MAX_WORKERS, proxies, total_proxies, working_proxies,
                   failed_proxies, checked, futures, work_queue, num_threads, raised,
                   interrupted, summary, file_exists, file_content, save_state, exit_code,
                   stdout>>

\* the with block is left by an exception: __exit__ waits for the workers, then
\* the exception reaches main (KeyboardInterrupt: notice and sys.exit(0);
\* anything else: traceback)
unwind ==
    /\ pc = "Unwinding"
    /\ ShutdownComplete
    /\ IF raised = "KeyboardInterrupt"
       THEN pc' = "Aborted" /\ stdout' = Append(stdout, Notice("interrupted"))
       ELSE pc' = "Crashed" /\ stdout' = stdout
    /\ exit_code' = ExitStatus(raised)
    /\ UNCHANGED <<proxy_file, MAX_WORKERS, proxies, total_proxies, working_proxies,
                   failed_proxies, checked, futures, work_queue, num_threads, raised,
                   interrupted, summary, file_exists, file_content, save_state>>

\* len(working)/total*100 printed with two decimals, in hundredths of a percent
SuccessRate(working, total) == (2 * 10000 * working + total) \div (2 * total)

\* lines 108-115: the summary
print_summary ==
    /\ pc = "Reporting"
    /\ IF total_proxies = 0
       THEN \* ZeroDivisionError at line 114
            /\ pc' = "Crashed" /\ raised' = "ZeroDivisionError"
            /\ exit_code' = ExitStatus("ZeroDivisionError")
            /\ UNCHANGED <<summary, stdout>>
       ELSE /\ summary' = [total |-> total_proxies,
                           working |-> Len(working_proxies),
                           failed |-> Len(failed_proxies),
                           rate |-> SuccessRate(Len(working_proxies), total_proxies)]
            /\ stdout' = Append(stdout, Line("summary", Len(working_proxies),
                                             total_proxies, FALSE))
            /\ pc' = "Saving"
            /\ UNCHANGED <<raised, exit_code>>
    /\ UNCHANGED <<proxy_file, MAX_WORKERS, proxies, total_proxies, working_proxies,
                   failed_proxies, checked, futures, work_queue, num_threads,
                   interrupted, file_exists, file_content, save_state>>

\* save_working_proxies always opening the file
NothingToSaveIgnored(working) == FALSE

\* save_working_proxies: `if not self.working_proxies`
NothingToSave(working) == working = <<>>

\* save_working_proxies up to open(output_file, 'w'): skip when nothing works,
\* else the file is created or truncated, or open fails and the error is printed
save_open ==
    /\ pc = "Saving"
    /\ IF NothingToSave(working_proxies)
       THEN /\ save_state' = "skipped" /\ pc' = "Done" /\ exit_code' = 0
            /\ stdout' = Append(stdout, Notice("nothing_to_save"))
            /\ UNCHANGED <<file_exists, file_content>>
       ELSE \/ /\ file_exists' = TRUE /\ file_content' = <<>>
               /\ save_state' = "open" /\ pc' = "Writing"
               /\ UNCHANGED <<exit_code, stdout>>
            \/ /\ save_state' = "error" /\ pc' = "Done" /\ exit_code' = 0
               /\ stdout' = Append(stdout, Notice("save_error"))
               /\ UNCHANGED <<file_exists, file_content>>
    /\ UNCHANGED <<proxy_file, MAX_WORKERS, proxies, total_proxies, working_proxies,
                   failed_proxies, checked, futures, work_queue, num_threads, raised,
                   interrupted, summary>>

\* writing the normalised proxy URL instead of the loaded address
OutputLineOfUrl(proxy) == ProxyUrl(proxy) \o <<"\n">>

\* f.write(f"{proxy}\n")
OutputLine(proxy) == proxy \o <<"\n">>

\* save_working_proxies without its `except Exception`: a failed write leaves
\* run() as an exception
save_write_unhandled ==
    /\ pc = "Writing"
    /\ IF Len(file_content) < Len(working_proxies)
       THEN \/ /\ file_content' =
                     Append(file_content, OutputLine(working_proxies[Len(file_content) + 1]))
               /\ UNCHANGED <<pc, save_state, exit_code, stdout, raised>>
            \/ /\ save_state' = "error" /\ pc' = "Crashed" /\ raised' = "OSError"
               /\ exit_code' = ExitStatus("OSError")
               /\ UNCHANGED <<stdout, file_content>>
       ELSE /\ save_state' = "saved" /\ pc' = "Done" /\ exit_code' = 0
            /\ stdout' = Append(stdout, Notice("saved"))
            /\ UNCHANGED <<file_content, raised>>
    /\ UNCHANGED <<proxy_file, MAX_WORKERS, proxies, total_proxies, working_proxies,
                   failed_proxies, checked, futures, work_queue, num_threads,
                   interrupted, summary, file_exists>>

\* the write loop: the next line is written, or the write fails and the error is
\* printed; after the last line the file is closed and run() returns
save_write ==
    /\ pc = "Writing"
    /\ IF Len(file_content) < Len(working_proxies)
       THEN \/ /\ file_content' =
                     Append(file_content, OutputLine(working_proxies[Len(file_content) + 1]))
               /\ UNCHANGED <<pc, save_state, exit_code, stdout>>
            \/ /\ save_state' = "error" /\ pc' = "Done" /\ exit_code' = 0
               /\ stdout' = Append(stdout, Notice("save_error"))
               /\ file_content' = file_content
       ELSE /\ save_state' = "saved" /\ pc' = "Done" /\ exit_code' = 0
            /\ stdout' = Append(stdout, Notice("saved"))
            /\ file_content' = file_content
    /\ UNCHANGED <<proxy_file, MAX_WORKERS, proxies, total_proxies, working_proxies,
                   failed_proxies, checked, futures, work_queue, num_threads, raised,
                   interrupted, summary, file_exists>>

\* Ctrl-C: KeyboardInterrupt is raised in the main thread.  Inside the with
\* block it first runs the executor's __exit__ (see unwind); elsewhere it goes
\* straight to main's handler, which prints the notice and calls sys.exit(0)
interrupt ==
    /\ pc \in {"Idle", "Loading", "Probing", "Submitting", "Collecting", "Reporting",
               "Saving", "Writing"}
    /\ ~interrupted
    /\ interrupted' = TRUE
    /\ raised' = "KeyboardInterrupt"
    /\ IF pc \in {"Submitting", "Collecting"}
       THEN pc' = "Unwinding" /\ UNCHANGED <<exit_code, stdout>>
       ELSE /\ pc' = "Aborted"
            /\ exit_code' = ExitStatus("KeyboardInterrupt")
            /\ stdout' = Append(stdout, Notice("interrupted"))
    /\ UNCHANGED <<proxy_file, MAX_WORKERS, proxies, total_proxies, working_proxies,
                   failed_proxies, checked, futures, work_queue, num_threads, summary,
                   file_exists, file_content, save_state>>

Next ==
    \/ run_begin
    \/ load_proxies
    \/ executor_init
    \/ submit
    \/ worker_start
    \/ request_done
    \/ worker_finish
    \/ collect
    \/ executor_exit
    \/ unwind
    \/ print_summary
    \/ save_open
    \/ save_write
    \/ interrupt

Spec == Init /\ [][Next]_vars

\* the steps of the main thread, but for the arrival of a KeyboardInterrupt
MainThread ==
    \/ run_begin
    \/ load_proxies
    \/ executor_init
    \/ submit
    \/ collect
    \/ executor_exit
    \/ unwind
    \/ print_summary
    \/ save_open
    \/ save_write

\* the steps of the worker threads; requests.get is given timeout=self.timeout
WorkerThreads ==
    \/ worker_start
    \/ request_done
    \/ worker_finish

\* the main thread and the workers are scheduled fairly and every request
\* returns or times out; whether a KeyboardInterrupt comes is left open
FairSpec == Spec /\ WF_vars(MainThread) /\ WF_vars(WorkerThreads)

\* ------------------------------------------------------------------ claims
Count(seq, a) == Cardinality({k \in 1..Len(seq) : seq[k] = a})
Elems(seq) == {seq[k] : k \in 1..Len(seq)}
Yielded == {i \in 1..Len(futures) : futures[i].yielded}

\* the main thread is past the loop of check_all_proxies
AfterProbing == pc \in {"Reporting", "Saving", "Writing", "Done"} /\ proxies # <<>>

\* the output file is as the run found it
FileUntouched ==
    /\ save_state \in {"none", "skipped"}
    /\ file_content = IF file_exists THEN StaleContent ELSE <<>>

\* the text of the output file, split into lines
FileLines == [k \in 1..Len(file_content) |->
                 SubSeq(file_content[k], 1, Len(file_content[k]) - 1)]

\* C1: once check_all_proxies has finished its loop in a run that was not
\* interrupted, every loaded candidate (each list position) was submitted once,
\* probed once and its result consumed once: checked = number of candidates.
C1_OneResultPerCandidate ==
    AfterProbing =>
        /\ Len(futures) = Len(proxies)
        /\ checked = Len(proxies)
        /\ Len(working_proxies) + Len(failed_proxies) = Len(proxies)
        /\ \A i \in 1..Len(proxies) :
              /\ futures[i].proxy = proxies[i]
              /\ futures[i].calls = 1
              /\ futures[i].state = "FINISHED"
              /\ futures[i].yielded

C1_Witness ==
    /\ pc = "Done" /\ ~interrupted
    /\ Len(proxies) = 2 /\ MAX_WORKERS = 1 /\ checked = 2

\* C2 as stated: total_proxies = len(working_proxies) + len(failed_proxies) in
\* every reachable state.
C2_TotalAlways == total_proxies = Len(working_proxies) + Len(failed_proxies)

\* C2 amended: len(working_proxies) + len(failed_proxies) never exceeds
\* total_proxies, and equals it from the end of the loop of check_all_proxies
\* on; the printed summary has total = working + failed.
C2_TotalAtSummary ==
    /\ Len(working_proxies) + Len(failed_proxies) <= total_proxies
    /\ AfterProbing => total_proxies = Len(working_proxies) + Len(failed_proxies)
    /\ summary # <<>> => summary.total = summary.working + summary.failed

C2_Witness ==
    /\ summary # <<>>
    /\ summary.total = 2 /\ summary.working = 1 /\ summary.failed = 1

\* C3 as stated: whenever save_working_proxies has written the file, its lines
\* are exactly the addresses classified Working, each exactly once, and no
\* address classified Failed is among them.
C3_FileExactlyWorkingOnce ==
    save_state = "saved" =>
        /\ Elems(FileLines) = {futures[i].proxy : i \in {j \in Yielded : futures[j].value[2]}}
        /\ \A a \in Elems(FileLines) : Count(FileLines, a) = 1
        /\ \A i \in Yielded : ~futures[i].value[2] => futures[i].proxy \notin Elems(FileLines)

\* C3 amended: when save_working_proxies has written the file, its lines are the
\* working list: one line per probe classified Working (an address loaded k
\* times has one line per Working probe of it) and none for an address with no
\* Working probe; when no address was loaded twice, each Working address is
\* there exactly once and no Failed address is.
C3_FileIsWorkingList ==
    save_state = "saved" =>
        /\ FileLines = working_proxies
        /\ \A a \in Elems(proxies) :
              Count(FileLines, a) =
                  Cardinality({i \in Yielded : futures[i].proxy = a /\ futures[i].value[2]})
        /\ Elems(FileLines) \subseteq Elems(proxies)
        /\ (\A a \in Elems(proxies) : Count(proxies, a) = 1) =>
              /\ \A a \in Elems(FileLines) : Count(FileLines, a) = 1
              /\ Elems(FileLines) \cap Elems(failed_proxies) = {}

C3_Witness ==
    /\ save_state = "saved"
    /\ Len(FileLines) = 1 /\ Len(failed_proxies) = 1
    /\ FileLines[1] = AddrScheme

\* C4: the number of probes in flight (check_proxy entered and not yet
\* returned) never exceeds MAX_WORKERS.
C4_InFlightBounded == Cardinality(Running) <= MAX_WORKERS

C4_Witness ==
    /\ MAX_WORKERS = 1
    /\ Cardinality(Running) = 1
    /\ work_queue # <<>>
    /\ pc = "Collecting"

\* C5: when the input file is missing or unreadable, no probe is ever
\* submitted, the lists stay empty, the output file is not touched, and the
\* run that reaches load_proxies ends Aborted with exit status 1.
C5_LoadFailureIsFatal ==
    proxy_file.status # "ok" =>
        /\ futures = <<>> /\ work_queue = <<>>
        /\ working_proxies = <<>> /\ failed_proxies = <<>>
        /\ FileUntouched /\ save_state = "none"
        /\ pc \in {"Idle", "Loading", "Aborted"}
        /\ (pc = "Aborted" /\ ~interrupted) => exit_code = 1

C5_Witness ==
    /\ proxy_file.status = "IOError"
    /\ pc = "Aborted" /\ exit_code = 1 /\ ~interrupted

C7_ProbeNeverRaises ==
    /\ \A i \in Finished :
          /\ futures[i].exc = "none"
          /\ Len(futures[i].value) = 3
          /\ futures[i].value[1] = futures[i].proxy
    /\ raised \in {"none", "KeyboardInterrupt", "ValueError", "SystemExit"}
    /\ pc = "Crashed" => futures = <<>>

C7_Witness ==
    /\ pc = "Collecting"
    /\ \E i \in Yielded : futures[i].value[3] = 0 /\ ~futures[i].value[2]
    /\ \E i \in 1..Len(futures) : futures[i].state = "PENDING"

\* C8: a probe is Working exactly when its request was answered with status
\* 200, and Failed for every other status and every exception; every result
\* consumed is in exactly one of working_proxies and failed_proxies.
C8_Partition ==
    /\ Len(working_proxies) + Len(failed_proxies) = Cardinality(Yielded)
    /\ \A a \in Elems(proxies) :
          /\ Count(working_proxies, a) =
                Cardinality({i \in Yielded : futures[i].proxy = a /\ futures[i].value[2]})
          /\ Count(failed_proxies, a) =
                Cardinality({i \in Yielded : futures[i].proxy = a /\ ~futures[i].value[2]})

C8_Rule ==
    \A i \in 1..Len(futures) :
        (futures[i].state = "RUNNING" /\ futures'[i].state = "FINISHED") =>
            /\ futures'[i].exc = "none"
            /\ futures'[i].value[1] = futures[i].proxy
            /\ futures'[i].value[2] =
                  (futures[i].attempt.kind = "response" /\ futures[i].attempt.status_code = 200)

C8_WorkingIffStatus200 == [](C8_Partition) /\ [][C8_Rule]_vars

C8_Witness ==
    /\ pc = "Done"
    /\ Len(working_proxies) = 1 /\ Len(failed_proxies) = 1
    /\ working_proxies[1] = failed_proxies[1]

\* C9: a run that ends normally exits with status 0, a run ended by a
\* KeyboardInterrupt (in Loading, Probing or Reporting) exits with status 0, and
\* a run whose input file is missing or unreadable exits with status 1.
C9_ExitCodes ==
    /\ pc \notin Terminal => exit_code = NoExit
    /\ pc = "Done" => exit_code = 0
    /\ (pc = "Aborted" /\ interrupted) => exit_code = 0
    /\ (pc = "Aborted" /\ ~interrupted) => (exit_code = 1 /\ proxy_file.status # "ok")
    /\ (pc \in Terminal /\ ~interrupted /\ proxy_file.status # "ok") => exit_code = 1

C9_Witness ==
    /\ pc = "Aborted" /\ interrupted /\ exit_code = 0
    /\ futures # <<>>

\* C10: after a KeyboardInterrupt during Probing no candidate that had not
\* started begins its probe and nothing more is appended to working_proxies or
\* failed_proxies.
C10_NothingStartsAfterInterrupt ==
    [][(pc = "Unwinding" /\ raised = "KeyboardInterrupt") =>
          /\ \A i \in 1..Len(futures) :
                futures[i].state = "PENDING" => futures'[i].state = "PENDING"
          /\ working_proxies' = working_proxies
          /\ failed_proxies' = failed_proxies]_vars

\* C11: after an interrupted run the output file is either as the run found it
\* or holds the complete working list of a finished batch; never a part of it.
C11_NoPartialOutput ==
    (pc = "Aborted" /\ interrupted) =>
        \/ FileUntouched
        \/ /\ Len(working_proxies) + Len(failed_proxies) = Len(proxies)
           /\ FileLines = working_proxies

\* C12: a failed open or write of the output file is printed and nothing more:
\* the summary was printed before, working_proxies and failed_proxies are left
\* as they were, and the run ends normally with exit status 0.
C12_ErrorState ==
    save_state = "error" =>
        /\ pc = "Done" /\ exit_code = 0 /\ raised = "none"
        /\ summary # <<>>
        /\ summary.working = Len(working_proxies)
        /\ summary.failed = Len(failed_proxies)
        /\ stdout[Len(stdout)] = Notice("save_error")
        /\ \E k \in 1..(Len(stdout) - 1) : stdout[k].tag = "summary"

C12_ErrorStep ==
    (save_state # "error" /\ save_state' = "error") =>
        /\ working_proxies' = working_proxies
        /\ failed_proxies' = failed_proxies
        /\ summary' = summary

C12_WriteFailureNotFatal == [](C12_ErrorState) /\ [][C12_ErrorStep]_vars

C12_Witness ==
    /\ save_state = "error"
    /\ Len(working_proxies) = 2
    /\ Len(file_content) = 1

\* the state of the run's state machine the main thread is in
RunState ==
    CASE pc \in {"Probing", "Submitting", "Collecting", "Unwinding"} -> "Probing"
      [] pc \in {"Reporting", "Saving", "Writing"} -> "Reporting"
      [] OTHER -> pc

Successor(state) ==
    CASE state = "Idle" -> "Loading"
      [] state = "Loading" -> "Probing"
      [] state = "Probing" -> "Reporting"
      [] state = "Reporting" -> "Done"
      [] OTHER -> "none"

\* a step to Aborted: a load failure in Loading, or a KeyboardInterrupt
AbortStep ==
    /\ RunState' = "Aborted"
    /\ \/ RunState = "Loading" /\ proxy_file.status # "ok" /\ ~interrupted'
       \/ interrupted' /\ raised' = "KeyboardInterrupt"

\* nothing is probed, appended or written
Quiet ==
    UNCHANGED <<futures, work_queue, working_proxies, failed_proxies, checked,
                file_exists, file_content>>

C14_NothingSavedWhenNoneWork ==
    (AfterProbing /\ working_proxies = <<>>) =>
        /\ FileUntouched
        /\ pc \in {"Reporting", "Saving", "Done"}
        /\ summary # <<>> =>
              summary = [total |-> Len(proxies), working |-> 0,
                         failed |-> Len(proxies), rate |-> 0]
        /\ pc = "Done" =>
              /\ save_state = "skipped"
              /\ summary # <<>>
              /\ stdout[Len(stdout)] = Notice("nothing_to_save")

C14_Witness ==
    /\ pc = "Done" /\ save_state = "skipped"
    /\ Len(failed_proxies) = 2
    /\ file_exists /\ file_content = StaleContent

IsPrefix(s, t) == Len(s) <= Len(t) /\ SubSeq(t, 1, Len(s)) = s

\* C15: no result is consumed before every candidate is submitted, a result is
\* consumed only once its probe is done, working_proxies and failed_proxies
\* only grow at the end, by the result just consumed, and what is written to
\* the output file is working_proxies from its first address on, in order.
C15_Order ==
    /\ Yielded # {} => Len(futures) = Len(proxies)
    /\ \A i \in Yielded : futures[i].state = "FINISHED"
    /\ save_state \in {"open", "saved"} => IsPrefix(FileLines, working_proxies)
    /\ save_state = "saved" => FileLines = working_proxies

C15_Grow ==
    /\ IsPrefix(working_proxies, working_proxies')
    /\ IsPrefix(failed_proxies, failed_proxies')
    /\ \A i \in 1..Len(futures) :
          (~futures[i].yielded /\ futures'[i].yielded /\ futures[i].exc = "none") =>
              /\ futures[i].state = "FINISHED"
              /\ \/ working_proxies' = Append(working_proxies, futures[i].proxy)
                 \/ failed_proxies' = Append(failed_proxies, futures[i].proxy)

C15_CompletionOrder == [](C15_Order) /\ [][C15_Grow]_vars

\* the second candidate is collected, and written, before the first
C15_Witness ==
    /\ save_state = "saved"
    /\ proxies = <<AddrPlain, AddrScheme>>
    /\ working_proxies = <<AddrScheme, AddrPlain>>

\* C16: with at least one worker, fair scheduling and requests that return or
\* time out, every run ends Done or Aborted, whatever the number of candidates.
C16_RunTerminates == (MAX_WORKERS >= 1) ~> (pc \in {"Done", "Aborted"})

\* more candidates than workers, all probed, run ended
C16_Witness ==
    /\ pc = "Done" /\ MAX_WORKERS = 1
    /\ Len(proxies) = 2 /\ checked = 2

\* a worker thread has taken a step: some future was started, answered or done
WorkerStep ==
    \E i \in 1..Len(futures) :
        \/ futures'[i].state # futures[i].state
        \/ futures'[i].attempt # futures[i].attempt
        \/ futures'[i].value # futures[i].value
        \/ futures'[i].calls # futures[i].calls

\* C17: a step of a worker thread leaves working_proxies, failed_proxies and
\* checked alone; they change only in a step of the main thread inside the loop
\* of check_all_proxies, which consumes one future, appends one address and
\* adds one to checked, so that no append is lost or made twice.
C17_Counted ==
    /\ checked = Len(working_proxies) + Len(failed_proxies)
    /\ checked = Cardinality({i \in Yielded : futures[i].exc = "none"})

C17_SingleWriter ==
    /\ WorkerStep => UNCHANGED <<working_proxies, failed_proxies, checked>>
    /\ (<<working_proxies, failed_proxies, checked>>' # <<working_proxies, failed_proxies, checked>>) =>
          /\ pc = "Collecting"
          /\ checked' = checked + 1
          /\ Len(working_proxies') + Len(failed_proxies') =
                Len(working_proxies) + Len(failed_proxies) + 1
          /\ Cardinality({i \in 1..Len(futures) : futures'[i].yielded /\ ~futures[i].yielded}) = 1
          /\ \A i \in 1..Len(futures) :
                /\ futures'[i].state = futures[i].state
                /\ futures'[i].value = futures[i].value

C17_RaceFree == [](C17_Counted) /\ [][C17_SingleWriter]_vars

\* two workers, both probes done, both results merged by the main thread
C17_Witness ==
    /\ MAX_WORKERS = 2 /\ pc = "Collecting"
    /\ Cardinality(Finished) = 2
    /\ checked = 2
    /\ Len(working_proxies) = 1 /\ Len(failed_proxies) = 1

IsProgress(line) == line.tag = "progress"
ProgressLines == SelectSeq(stdout, IsProgress)

\* C18: checked = len(working_proxies) + len(failed_proxies) <= total_proxies in
\* every state; the progress lines printed so far carry the indices 1, 2, ...,
\* checked in that order, each out of total_proxies, and once the loop has ended
\* the last of them carries total_proxies.
C18_ProgressCounter ==
    /\ checked = Len(working_proxies) + Len(failed_proxies)
    /\ checked <= total_proxies
    /\ Len(ProgressLines) = checked
    /\ \A k \in 1..Len(ProgressLines) :
          /\ ProgressLines[k].index = k
          /\ ProgressLines[k].total = total_proxies
    /\ AfterProbing =>
          /\ ProgressLines # <<>>
          /\ ProgressLines[Len(ProgressLines)].index = total_proxies

C18_Witness ==
    /\ pc = "Reporting" /\ total_proxies = 2
    /\ Len(ProgressLines) = 2
    /\ ProgressLines[2].index = 2

\* C19: a candidate without "://" is probed through "http://" + candidate and
\* one with "://" through itself, while the address in the result tuple, in
\* working_proxies and failed_proxies and in the output file is the loaded
\* string itself.
C19_AddressUnchanged ==
    /\ \A i \in 1..Len(futures) :
          /\ futures[i].proxy = proxies[i]
          /\ futures[i].state # "PENDING" =>
                IF \E k \in 1..Len(proxies[i]) : proxies[i][k] = "://"
                THEN futures[i].proxy_url = proxies[i]
                ELSE futures[i].proxy_url = <<"http", "://">> \o proxies[i]
          /\ futures[i].state = "FINISHED" => futures[i].value[1] = proxies[i]
    /\ Elems(working_proxies) \cup Elems(failed_proxies) \subseteq Elems(proxies)
    /\ \A a \in Elems(proxies) :
          Count(working_proxies, a) + Count(failed_proxies, a) =
              Cardinality({i \in Yielded : proxies[i] = a})
    /\ save_state \in {"open", "saved"} => Elems(FileLines) \subseteq Elems(proxies)
    /\ save_state = "saved" => FileLines = working_proxies

\* a bare address probed through http:// and saved as loaded
C19_Witness ==
    /\ save_state = "saved"
    /\ proxies = <<AddrPlain>>
    /\ futures[1].proxy_url = <<"http", "://", "h1:8080">>
    /\ FileLines = <<<<"h1:8080">>>>

====
